---- MODULE Spec2Model ----
(***************************************************************************)
(* Vision-Classroom: the live-preview parameter-editing protocol of the    *)
(* parameter windows (widgets/*.py) and the application shell that owns    *)
(* the current image (main_app.py).                                        *)
(*                                                                         *)
(* Every handler is one atomic action: the program is single threaded and  *)
(* a Qt slot runs to completion, nested signal emissions included.  An     *)
(* unhandled Python exception in a slot ends the process (PyQt5 >= 5.5     *)
(* calls qFatal; main_app.py installs no excepthook), modelled by alive.   *)
(*                                                                         *)
(* Spec is the parameter-window protocol; SpecFile the File menu (open,    *)
(* save, save as) with the windows' commits; SpecCam the Select Camera     *)
(* menu and the closing of the main window; SpecSource one camera widget   *)
(* driven through its methods; SpecOdd the odd-only sliders over their     *)
(* whole range; SpecFlags the Thresholding window with its Otsu and        *)
(* Triangle boxes; SpecSharp the Laplacian and Unsharp Mask windows.       *)
(*                                                                         *)
(* Images are rows of NPix grey pixels (B = G = R); the threshold and HSV  *)
(* operators are computed pixel by pixel, the Gaussian blur is recorded as *)
(* the blur parameters attached to the source pixels.                      *)
(***************************************************************************)
EXTENDS Integers, Sequences, FiniteSets, TLC

VARIABLES
    image,                \* CVTeachingApp.image
    current_output,       \* CVTeachingApp.current_output
    previous_output,      \* CVTeachingApp.previous_output
    current_output_path,  \* CVTeachingApp.current_output_path
    camera_running,       \* CVTeachingApp.camera_running
    parameter_windows,    \* CVTeachingApp.parameter_windows: window title -> panel
    displayed,            \* pixmap shown by CVTeachingApp.image_label
    panels,               \* the live parameter windows (Qt widgets not yet deleted)
    now,                  \* time.time(), in milliseconds
    alive,                \* the process runs: no unhandled exception has ended it and
                          \* the main window has not been closed
    act,                  \* history: the handler that ran last, the calls it made, and
                          \* whether its panel had a dropped control change pending
    hist,                 \* history: per panel, the recomputes it started
    used,                 \* history: the number of user events so far
    disk,                 \* the image files: path -> decoded content (None: unreadable)
    current_camera,       \* CVTeachingApp.current_camera
    camera_timer,         \* CVTeachingApp.camera_timer is active
    leaked,               \* history: open device handles of camera objects the
                          \* application no longer refers to
    shown                 \* which of image_label and camera_container are visible

vars == << image, current_output, previous_output, current_output_path,
           camera_running, parameter_windows, displayed, panels, now, alive,
           act, hist, used, disk, current_camera, camera_timer, leaked, shown >>

----------------------------------------------------------------------------
(* Bounds *)

MaxPanels == 2      \* parameter windows alive at the same time
MaxElapsed == 67    \* milliseconds of wall-clock time a behaviour covers
MaxEvents == 5      \* user events (menu entries, clicks, control changes) in a behaviour

(* Program constants *)

THROTTLE_MS == 66           \* 0.066 s in on_parameter_changed
T0 == 1000                  \* wall-clock reading when the application starts
THRESH_BINARY == 0          \* cv2.THRESH_BINARY
THRESH_BINARY_INV == 1      \* cv2.THRESH_BINARY_INV
THRESH_TRUNC == 2           \* cv2.THRESH_TRUNC
BORDER_DEFAULT == 4         \* cv2.BORDER_DEFAULT
BORDER_CONSTANT == 0        \* cv2.BORDER_CONSTANT
FP == 100                   \* parameter values are kept in hundredths

None == [none |-> TRUE]
NoPanel == [kind |-> "none"]

PanelIds == 1..MaxPanels
TickSteps == {THROTTLE_MS, THROTTLE_MS + 1}

Kinds == {"Threshold", "HSV", "GaussianBlur"}

\* the Laplacian and Unsharp Mask entries of the Tools menu
SharpKinds == {"Laplacian", "UnsharpMask"}

----------------------------------------------------------------------------
(* Images *)

NPix == 2

Plain(px) == [px |-> px, blur |-> << >>]

\* the files File > Open can be pointed at, and the ones Save As can be given:
\* a writable path, a path in a directory that cannot be written, and a name
\* with no extension
Paths == {"a.png", "b.png", "missing.png"}
SavePaths == {"out.png", "/ro/out.png", "out"}

\* the image files that exist when the application starts
InitialDisk ==
    [f \in Paths \cup SavePaths |->
        CASE f = "a.png" -> Plain([i \in 1..NPix |-> IF i % 2 = 1 THEN 100 ELSE 200])
          [] f = "b.png" -> Plain([i \in 1..NPix |-> IF i % 2 = 1 THEN 30 ELSE 140])
          [] OTHER -> None]

\* cv2.imread: the decoded file, or None when it cannot be read
imread(path) == IF path \in DOMAIN disk THEN disk[path] ELSE None

Clip(v, lo, hi) == IF v < lo THEN lo ELSE IF v > hi THEN hi ELSE v

Max(a, b) == IF a > b THEN a ELSE b

\* Python's x | 1 on a non-negative integer
Or1(x) == IF x % 2 = 0 THEN x + 1 ELSE x

----------------------------------------------------------------------------
(* Window titles *)

\* window_class.__name__.replace("ParameterWindow", "").replace("Window", "")
ClassTitle(k) ==
    CASE k = "Threshold" -> "Threshold"
      [] k = "HSV" -> "HSV"
      [] k = "GaussianBlur" -> "GaussianBlur"
      [] k = "Laplacian" -> "Laplacian"
      [] k = "UnsharpMask" -> "UnsharpMask"

\* the title each subclass passes to BaseParameterWindow.__init__
WindowTitle(k) ==
    CASE k = "Threshold" -> "Thresholding"
      [] k = "HSV" -> "HSV Parameters"
      [] k = "GaussianBlur" -> "Gaussian Blur"
      [] k = "Laplacian" -> "Laplacian Edge Enhancement"
      [] k = "UnsharpMask" -> "Unsharp Mask"

Titles == {WindowTitle(k) : k \in Kinds} \cup {ClassTitle(k) : k \in Kinds}

----------------------------------------------------------------------------
(* Parameter sets *)

FromInt(n) == n * FP
Scaled(raw, div) == (raw * FP) \div div

\* self.default_params of each window
default_params(k) ==
    CASE k = "Threshold" ->
            [method |-> FromInt(THRESH_BINARY), thresh |-> FromInt(127),
             maxval |-> FromInt(255), block_size |-> FromInt(11),
             C |-> FromInt(2), otsu |-> FALSE, triangle |-> FALSE]
      [] k = "HSV" ->
            [hue_shift |-> FromInt(0), hue_scale |-> FromInt(100),
             sat_shift |-> FromInt(0), sat_scale |-> FromInt(100),
             val_shift |-> FromInt(0), val_scale |-> FromInt(100)]
      [] k = "GaussianBlur" ->
            [kernel_size |-> FromInt(5), sigma_x |-> Scaled(10, 10),
             sigma_y |-> Scaled(10, 10), border_type |-> FromInt(BORDER_DEFAULT)]
      [] k = "Laplacian" ->
            [ksize |-> FromInt(3), scale |-> FromInt(1), delta |-> FromInt(0),
             border_type |-> FromInt(BORDER_DEFAULT), blend_factor |-> Scaled(5, 10)]
      [] k = "UnsharpMask" ->
            [amount |-> Scaled(10, 10), radius |-> Scaled(10, 10),
             threshold |-> FromInt(0), blur_type |-> "gaussian",
             preserve_color |-> FALSE]

\* the raw values setup_ui gives the controls
InitialControls(k) ==
    CASE k = "Threshold" ->
            [method |-> 0, thresh |-> 127, maxval |-> 255, block_size |-> 11,
             C |-> 2, otsu |-> FALSE, triangle |-> FALSE]
      [] k = "HSV" ->
            [hue_shift |-> 0, hue_scale |-> 100, sat_shift |-> 0,
             sat_scale |-> 100, val_shift |-> 0, val_scale |-> 100]
      [] k = "GaussianBlur" ->
            [kernel_size |-> 5, sigma_x |-> 10, sigma_y |-> 10, border |-> 0]
      [] k = "Laplacian" ->
            \* setup_ui hands int(0.5 * 10) to create_slider, which with float_step
            \* sets the slider to int(default * 10)
            [ksize |-> 3, scale |-> 1, delta |-> 0, blend_factor |-> 5 * 10,
             border |-> 0]
      [] k = "UnsharpMask" ->
            [amount |-> 10, radius |-> 10, threshold |-> 0, blur |-> 0,
             preserve_color |-> FALSE]

\* the controls that are QSliders carrying a value_label
Sliders(k) ==
    CASE k = "Threshold" -> {"thresh", "maxval", "block_size", "C"}
      [] k = "HSV" -> {"hue_shift", "hue_scale", "sat_shift", "sat_scale",
                       "val_shift", "val_scale"}
      [] k = "GaussianBlur" -> {"kernel_size", "sigma_x", "sigma_y"}
      [] k = "Laplacian" -> {"ksize", "scale", "delta", "blend_factor"}
      [] k = "UnsharpMask" -> {"amount", "radius", "threshold"}

\* no slider is created with odd_only=True
OddOnlyMut(k) == {}

\* sliders created with odd_only=True, and the minimum their handler enforces
OddOnly(k) ==
    CASE k = "Threshold" -> {"block_size"}
      [] k = "HSV" -> {}
      [] k = "GaussianBlur" -> {"kernel_size"}
      [] k = "Laplacian" -> {"ksize"}
      [] k = "UnsharpMask" -> {}

OddMin(k) == IF k = "Threshold" THEN 3 ELSE 1

\* sliders created with float_step: the label shows value / 10
FloatStep(k) ==
    CASE k = "GaussianBlur" -> {"sigma_x", "sigma_y"}
      [] k = "Laplacian" -> {"blend_factor"}
      [] k = "UnsharpMask" -> {"amount", "radius"}
      [] OTHER -> {}

\* the text a slider's value_label shows for a raw value, as a number in hundredths
LabelText(k, c, v) == IF c \in FloatStep(k) THEN Scaled(v, 10) ELSE FromInt(v)

InitialLabels(k) ==
    [c \in Sliders(k) |-> LabelText(k, c, InitialControls(k)[c])]

method_map(idx) ==
    CASE idx = 0 -> THRESH_BINARY
      [] idx = 1 -> THRESH_BINARY_INV
      [] idx = 2 -> THRESH_TRUNC
      [] OTHER -> THRESH_BINARY

border_map(idx) ==
    CASE idx = 0 -> BORDER_DEFAULT
      [] idx = 1 -> BORDER_CONSTANT
      [] OTHER -> BORDER_DEFAULT

\* self.blur_combo.currentText().lower()
blur_type(idx) ==
    CASE idx = 0 -> "gaussian"
      [] idx = 1 -> "median"
      [] idx = 2 -> "bilateral"

\* the dictionary apply_changes stores in self.current_params
ReadParams(k, ctl) ==
    CASE k = "Threshold" ->
            [method |-> FromInt(method_map(ctl.method)),
             thresh |-> FromInt(ctl.thresh), maxval |-> FromInt(ctl.maxval),
             block_size |-> FromInt(Max(3, Or1(ctl.block_size))),
             C |-> FromInt(ctl.C), otsu |-> ctl.otsu, triangle |-> ctl.triangle]
      [] k = "HSV" ->
            [hue_shift |-> FromInt(ctl.hue_shift),
             hue_scale |-> Scaled(ctl.hue_scale, 100),
             sat_shift |-> FromInt(ctl.sat_shift),
             sat_scale |-> Scaled(ctl.sat_scale, 100),
             val_shift |-> FromInt(ctl.val_shift),
             val_scale |-> Scaled(ctl.val_scale, 100)]
      [] k = "GaussianBlur" ->
            [kernel_size |-> FromInt(Max(1, Or1(ctl.kernel_size))),
             sigma_x |-> Scaled(ctl.sigma_x, 10),
             sigma_y |-> Scaled(ctl.sigma_y, 10),
             border_type |-> FromInt(border_map(ctl.border))]
      [] k = "Laplacian" ->
            [ksize |-> FromInt(Max(1, Or1(ctl.ksize))),
             scale |-> FromInt(ctl.scale), delta |-> FromInt(ctl.delta),
             border_type |-> FromInt(border_map(ctl.border)),
             blend_factor |-> Scaled(ctl.blend_factor, 10)]
      [] k = "UnsharpMask" ->
            [amount |-> Scaled(ctl.amount, 10), radius |-> Scaled(ctl.radius, 10),
             threshold |-> FromInt(ctl.threshold), blur_type |-> blur_type(ctl.blur),
             preserve_color |-> ctl.preserve_color]

----------------------------------------------------------------------------
(* Transform operators, applied to self.parent.image *)

\* cv2.threshold with a global method and no Otsu/Triangle flag
ThresholdPixel(v, method, thresh, maxval) ==
    CASE method = THRESH_BINARY -> IF v > thresh THEN maxval ELSE 0
      [] method = THRESH_BINARY_INV -> IF v > thresh THEN 0 ELSE maxval
      [] method = THRESH_TRUNC -> IF v > thresh THEN thresh ELSE v

\* the V channel of a grey pixel after HSVParameterWindow.apply_changes
\* (saturation stays 0 for sat_shift <= 0, so the result is grey again)
HSVPixel(v, val_scale, val_shift) ==
    Clip((v * val_scale) \div FP + val_shift \div FP, 0, 255)

\* ksize = int(2 * radius + 1) in _unsharp_mask_single_channel
MedianKernel(radius) == (2 * radius + FP) \div FP

\* cv2.threshold asserts that THRESH_OTSU and THRESH_TRIANGLE are not both set;
\* cv2.medianBlur asserts that its kernel size is odd
OperatorRaises(k, par) ==
    CASE k = "Threshold" -> par.otsu /\ par.triangle
      [] k = "UnsharpMask" ->
            par.blur_type = "median" /\ MedianKernel(par.radius) % 2 = 0
      [] OTHER -> FALSE

\* with the Otsu or the Triangle flag cv2.threshold finds the threshold itself: the
\* result is recorded as the flag, the method and maxval attached to the source pixels
Operator(k, par, img) ==
    CASE k = "Threshold" ->
            IF par.otsu \/ par.triangle
            THEN [px |-> img.px,
                  blur |-> << IF par.otsu THEN "otsu" ELSE "triangle",
                              par.method, par.maxval >>]
            ELSE Plain([i \in 1..NPix |->
                     ThresholdPixel(img.px[i], par.method \div FP, par.thresh \div FP,
                                    par.maxval \div FP)])
      [] k = "HSV" ->
            Plain([i \in 1..NPix |-> HSVPixel(img.px[i], par.val_scale, par.val_shift)])
      [] k = "GaussianBlur" ->
            IF par.kernel_size = FromInt(1)
            THEN Plain(img.px)
            ELSE [px |-> img.px,
                  blur |-> << par.kernel_size, par.sigma_x, par.sigma_y,
                              par.border_type >>]
      [] k = "Laplacian" ->
            [px |-> img.px,
             blur |-> << "laplacian", par.ksize, par.scale, par.delta,
                         par.border_type, par.blend_factor >>]
      [] k = "UnsharpMask" ->
            [px |-> img.px,
             blur |-> << "unsharp", par.blur_type,
                         IF par.blur_type = "median"
                         THEN FromInt(MedianKernel(par.radius)) ELSE par.radius,
                         par.amount, par.threshold, par.preserve_color >>]

----------------------------------------------------------------------------
(* The handlers, as functions of the world W: the fields a handler can     *)
(* change, with W.calls the calls the running handler has made so far.     *)

World ==
    [image |-> image, current_output |-> current_output,
     previous_output |-> previous_output, displayed |-> displayed,
     parameter_windows |-> parameter_windows, panels |-> panels,
     alive |-> alive, calls |-> << >>, hist |-> hist]

\* lastRec, prevRec: when the panel's last two recomputes started (-1: none yet);
\* lastCC, prevCC: the same for the recomputes started by on_parameter_changed;
\* lastInput: the image the last recompute handed to the operator;
\* pending: the throttle has dropped a control change and the controls no longer
\* hold the values of the last recompute
NoHist == [lastRec |-> -1, prevRec |-> -1, lastCC |-> -1, prevCC |-> -1,
           lastInput |-> None, pending |-> FALSE]

\* history: a recompute of the panel starts now, on input img
Recorded(h, cause, img) ==
    [lastRec |-> now, prevRec |-> h.lastRec,
     lastCC |-> IF cause = "change" THEN now ELSE h.lastCC,
     prevCC |-> IF cause = "change" THEN h.lastCC ELSE h.prevCC,
     lastInput |-> img, pending |-> FALSE]

\* CVTeachingApp.display_image
display_image(W, img) ==
    [W EXCEPT !.previous_output =
                  IF W.current_output # None THEN W.current_output ELSE @,
              !.displayed = img,
              !.current_output = img,
              !.calls = Append(@, "display")]

\* a temp_display_image that records the preview as the output, as display_image does
temp_display_imageMut(W, img) ==
    [W EXCEPT !.displayed = img, !.current_output = img, !.calls = Append(@, "temp")]

\* CVTeachingApp.temp_display_image
temp_display_image(W, img) ==
    [W EXCEPT !.displayed = img, !.calls = Append(@, "temp")]

\* the image a window's apply_changes hands to the operator
OperatorInput(W, p) == W.image

\* <Window>.apply_changes(preview_only); no window catches what the operator raises,
\* and the exception leaves the slot and ends the process
apply_changes(W, p, preview_only, cause) ==
    IF W.image = None
    THEN W
    ELSE LET pn == W.panels[p]
             par == ReadParams(pn.kind, pn.ctl)
             src == OperatorInput(W, p)
             result == Operator(pn.kind, par, src)
             W1 == [W EXCEPT !.panels[p].current_params = par,
                             !.hist[p] = Recorded(@, cause, src)]
         IN  IF OperatorRaises(pn.kind, par)
             THEN [W1 EXCEPT !.alive = FALSE, !.calls = Append(@, "cv2.error")]
             ELSE IF preview_only
             THEN temp_display_image(W1, result)
             ELSE display_image(W1, result)

\* a throttle that lets every change through
ThrottleOpenMut(last, t) == t - last >= 0

\* current_time - self.last_update_time > 0.066
ThrottleOpen(last, t) == t - last > THROTTLE_MS

\* a guard that forgets the Live Preview checkbox
LivePreviewGuardMut(live, img) == img # None

\* the test "self.live_preview and self.parent and self.parent.image is not None"
LivePreviewGuard(live, img) == live /\ img # None

RECURSIVE on_parameter_changed(_, _, _)

\* QSlider.setValue / QComboBox.setCurrentIndex / QCheckBox.setChecked:
\* the change signal is emitted, and its slot run, only when the value changes
setValue(W, p, c, v) ==
    IF W.panels[p].ctl[c] = v
    THEN W
    ELSE on_parameter_changed([W EXCEPT !.panels[p].ctl[c] = v], p, c)

\* <Window>.on_parameter_changed, with sender the control whose signal fired
on_parameter_changed(W, p, sender) ==
    LET k == W.panels[p].kind
        v == W.panels[p].ctl[sender]
        W1 == IF sender \notin Sliders(k)
              THEN W
              ELSE IF sender \in FloatStep(k)
              THEN [W EXCEPT !.panels[p].label[sender] = LabelText(k, sender, v)]
              ELSE IF sender \in OddOnly(k) /\ v % 2 = 0
              THEN LET Wn == setValue(W, p, sender, Max(OddMin(k), v - 1))
                   IN  [Wn EXCEPT !.panels[p].label[sender] =
                                      FromInt(Wn.panels[p].ctl[sender])]
              ELSE [W EXCEPT !.panels[p].label[sender] = FromInt(v)]
        pn == W1.panels[p]
    IN  IF LivePreviewGuard(pn.live_preview, W1.image)
        THEN IF ThrottleOpen(pn.last_update_time, now)
             THEN [apply_changes(W1, p, TRUE, "change")
                       EXCEPT !.panels[p].last_update_time = now]
             ELSE [W1 EXCEPT !.hist[p].pending =
                                 ReadParams(pn.kind, pn.ctl) # pn.current_params]
        ELSE W1

\* the order and the raw values of the setValue calls in reset_parameters
ResetOrder(k) ==
    CASE k = "Threshold" ->
            << "method", "thresh", "maxval", "block_size", "C", "otsu", "triangle" >>
      [] k = "HSV" ->
            << "hue_shift", "hue_scale", "sat_shift", "sat_scale",
               "val_shift", "val_scale" >>
      [] k = "GaussianBlur" ->
            << "kernel_size", "sigma_x", "sigma_y", "border" >>
      [] k = "Laplacian" ->
            << "ksize", "scale", "delta", "blend_factor", "border" >>
      [] k = "UnsharpMask" ->
            << "amount", "radius", "threshold", "blur", "preserve_color" >>

ResetValue(k, c) ==
    CASE c \in {"method", "border", "blur"} -> 0
      [] c \in {"otsu", "triangle", "preserve_color"} -> default_params(k)[c]
      [] c \in FloatStep(k) -> (default_params(k)[c] * 10) \div FP
      [] OTHER -> default_params(k)[c] \div FP

RECURSIVE ResetControls(_, _, _)
ResetControls(W, p, order) ==
    IF order = << >>
    THEN W
    ELSE ResetControls(setValue(W, p, Head(order),
                                ResetValue(W.panels[p].kind, Head(order))),
                       p, Tail(order))

\* <Window>.reset_parameters
reset_parameters(W, p) ==
    LET k == W.panels[p].kind
        W1 == ResetControls(W, p, ResetOrder(k))
        W2 == [W1 EXCEPT !.panels[p].current_params = default_params(k)]
    IN  apply_changes(W2, p, TRUE, "reset")

\* <Window>.on_revert_clicked
on_revert_clicked(W, p) ==
    IF W.panels[p].original_image # None
    THEN reset_parameters(display_image(W, W.panels[p].original_image), p)
    ELSE W

\* CVTeachingApp.register_parameter_window
register_parameter_window(W, p) ==
    LET key == WindowTitle(W.panels[p].kind)
        reg == W.parameter_windows
    IN  [W EXCEPT !.parameter_windows =
            [t \in DOMAIN reg \cup {key} |-> IF t = key THEN p ELSE reg[t]]]

\* CVTeachingApp.unregister_parameter_window
unregister_parameter_window(W, p) ==
    LET key == WindowTitle(W.panels[p].kind)
        reg == W.parameter_windows
    IN  IF key \in DOMAIN reg
        THEN [W EXCEPT !.parameter_windows = [t \in DOMAIN reg \ {key} |-> reg[t]]]
        ELSE W

\* BaseParameterWindow.closeEvent, then Qt deletes the widget (WA_DeleteOnClose)
closeEvent(W, p) ==
    [unregister_parameter_window(W, p)
        EXCEPT !.panels[p] = NoPanel, !.hist[p] = NoHist]

\* an OK that commits the image on display instead of recomputing
on_ok_clickedMut(W, p) == closeEvent(display_image(W, W.displayed), p)

\* <Window>.on_ok_clicked
on_ok_clicked(W, p) == closeEvent(apply_changes(W, p, FALSE, "ok"), p)

\* <Window>.on_cancel_clicked
on_cancel_clicked(W, p) == closeEvent(on_revert_clicked(W, p), p)

\* BaseParameterWindow.__init__ followed by the subclass __init__
NewPanel(W, k) ==
    [kind |-> k,
     original_image |-> W.current_output,
     default_params |-> default_params(k),
     current_params |-> default_params(k),
     ctl |-> InitialControls(k),
     label |-> InitialLabels(k),
     live_preview |-> TRUE,
     last_update_time |-> 0]

\* a guard that asks for a camera instead of its absence
NoImageGuardMut(img, cam) == img = None /\ cam

\* the test "self.image is None and not self.camera_running"
NoImageGuard(img, cam) == img = None /\ ~cam

\* the lookup key show_parameter_window tests the registry with
LookupKey(k) == ClassTitle(k)

FreeIds(W) == {p \in PanelIds : W.panels[p] = NoPanel}

\* CVTeachingApp.show_parameter_window, p the identity of the widget it creates
show_parameter_window(W, k, p) ==
    IF LookupKey(k) \in DOMAIN W.parameter_windows
    THEN [W EXCEPT !.calls = Append(@, "raise")]
    ELSE IF NoImageGuard(W.image, camera_running)
    THEN [W EXCEPT !.calls = Append(@, "warning")]
    ELSE IF W.current_output = None
    THEN [W EXCEPT !.alive = FALSE]      \* None.copy() raises AttributeError
    ELSE LET W1 == [W EXCEPT !.panels[p] = NewPanel(W, k), !.hist[p] = NoHist]
         IN  register_parameter_window(register_parameter_window(W1, p), p)

\* an open_image that shows the file without making it the output
open_imageMut(W, path) ==
    IF path = "" \/ imread(path) = None
    THEN W
    ELSE temp_display_image([W EXCEPT !.image = imread(path)], imread(path))

\* CVTeachingApp.open_image, path the file the dialog returned ("" when cancelled)
open_image(W, path) ==
    IF path = ""
    THEN W
    ELSE LET img == imread(path)
         IN  IF img = None
             THEN [W EXCEPT !.image = None, !.alive = FALSE]  \* None.copy() raises
             ELSE display_image([W EXCEPT !.image = img, !.current_output = img], img)

----------------------------------------------------------------------------
(* The state machine *)

\* the raw values the user gives a control
UserInputs(k) ==
    CASE k = "Threshold" -> { <<"thresh", 60>>, <<"thresh", 127>>, <<"method", 1>> }
      [] k = "HSV" -> { <<"val_scale", 200>>, <<"val_shift", 40>> }
      [] k = "GaussianBlur" -> { <<"kernel_size", 8>>, <<"sigma_x", 25>> }
      [] k = "Laplacian" -> { <<"border", 1>> }
      [] k = "UnsharpMask" -> { <<"blur", 1>>, <<"blur", 0>> }

Open(p) == panels[p] # NoPanel

\* initUI: the image label is shown, the camera container is hidden
InitialShown == [image_label |-> TRUE, camera_container |-> FALSE]

Init ==
    /\ image = None
    /\ current_output = None
    /\ previous_output = None
    /\ current_output_path = ""
    /\ camera_running = FALSE
    /\ parameter_windows = << >>
    /\ displayed = None
    /\ panels = [p \in PanelIds |-> NoPanel]
    /\ now = T0
    /\ alive = TRUE
    /\ act = [op |-> "init", pid |-> 0, calls |-> << >>, stale |-> FALSE]
    /\ hist = [p \in PanelIds |-> NoHist]
    /\ used = 0
    /\ disk = InitialDisk
    /\ current_camera = None
    /\ camera_timer = FALSE
    /\ leaked = 0
    /\ shown = InitialShown

\* a handler has run and left the world W
Outcome(W) ==
    /\ image' = W.image
    /\ current_output' = W.current_output
    /\ previous_output' = W.previous_output
    /\ displayed' = W.displayed
    /\ parameter_windows' = W.parameter_windows
    /\ panels' = W.panels
    /\ alive' = W.alive
    /\ hist' = W.hist
    /\ UNCHANGED << camera_running, now, disk, current_camera, camera_timer, leaked,
                    shown >>

\* the handler named op has run and left the world W
Finish(W, op, p) ==
    /\ Outcome(W)
    /\ act' = [op |-> op, pid |-> p, calls |-> W.calls,
                stale |-> p \in PanelIds /\ hist[p].pending]

\* File > Open
OpenImage(path) ==
    /\ alive
    /\ used < MaxEvents
    /\ LET W == open_image(World, path)
       IN  /\ Finish(W, "OpenImage", 0)
           /\ current_output_path' =
                  IF path # "" /\ W.alive THEN path ELSE current_output_path
    /\ used' = used + 1

\* a Tools menu entry
ShowParameterWindow(k) ==
    /\ alive
    /\ used < MaxEvents
    /\ FreeIds(World) # {}
    /\ LET p == CHOOSE q \in FreeIds(World) : \A r \in FreeIds(World) : q <= r
       IN  Finish(show_parameter_window(World, k, p), "ShowParameterWindow", p)
    /\ used' = used + 1
    /\ UNCHANGED current_output_path

\* the user moves a slider, picks a combo entry or ticks a box
ChangeControl(p, c, v) ==
    /\ alive
    /\ Open(p)
    /\ used < MaxEvents
    /\ << c, v >> \in UserInputs(panels[p].kind)
    /\ panels[p].ctl[c] # v
    /\ Finish(setValue(World, p, c, v), "ChangeControl", p)
    /\ used' = used + 1
    /\ UNCHANGED current_output_path

\* <Window>.on_preview_changed
TogglePreview(p) ==
    /\ alive
    /\ Open(p)
    /\ Finish([World EXCEPT !.panels[p].live_preview = ~@], "TogglePreview", p)
    /\ used < MaxEvents
    /\ used' = used + 1
    /\ UNCHANGED current_output_path

OkClicked(p) ==
    /\ alive
    /\ Open(p)
    /\ Finish(on_ok_clicked(World, p), "Ok", p)
    /\ used < MaxEvents
    /\ used' = used + 1
    /\ UNCHANGED current_output_path

RevertClicked(p) ==
    /\ alive
    /\ Open(p)
    /\ Finish(on_revert_clicked(World, p), "Revert", p)
    /\ used < MaxEvents
    /\ used' = used + 1
    /\ UNCHANGED current_output_path

CancelClicked(p) ==
    /\ alive
    /\ Open(p)
    /\ Finish(on_cancel_clicked(World, p), "Cancel", p)
    /\ used < MaxEvents
    /\ used' = used + 1
    /\ UNCHANGED current_output_path

\* the window's close button
CloseWindow(p) ==
    /\ alive
    /\ Open(p)
    /\ Finish(closeEvent(World, p), "Close", p)
    /\ used < MaxEvents
    /\ used' = used + 1
    /\ UNCHANGED current_output_path

\* wall-clock time passes between two events
Tick(d) ==
    /\ alive
    /\ now + d <= T0 + MaxElapsed
    /\ now' = now + d
    /\ act' = [op |-> "Tick", pid |-> 0, calls |-> << >>, stale |-> FALSE]
    /\ UNCHANGED << image, current_output, previous_output, current_output_path,
                    camera_running, parameter_windows, displayed, panels, alive,
                    hist, used, disk, current_camera, camera_timer, leaked, shown >>

Next ==
    \/ \E path \in Paths \cup {""} : OpenImage(path)
    \/ \E k \in Kinds : ShowParameterWindow(k)
    \/ \E p \in PanelIds : \E k \in Kinds : \E in \in UserInputs(k) :
           ChangeControl(p, in[1], in[2])
    \/ \E p \in PanelIds : TogglePreview(p)
    \/ \E p \in PanelIds : OkClicked(p)
    \/ \E p \in PanelIds : RevertClicked(p)
    \/ \E p \in PanelIds : CancelClicked(p)
    \/ \E p \in PanelIds : CloseWindow(p)
    \/ \E d \in TickSteps : Tick(d)

Spec == Init /\ [][Next]_vars

----------------------------------------------------------------------------
(* File > Save and File > Save As *)

\* OpenCV knows an encoder for the file name's extension
HasWriter(path) == path # "out"

\* the file can be created or overwritten
Writable(path) == path # "/ro/out.png"

\* the part of the state the save handlers work on
FileWorld ==
    [disk |-> disk, current_output_path |-> current_output_path,
     alive |-> alive, calls |-> << >>, target |-> ""]

\* cv2.imwrite(path, img): raises cv2.error when no encoder fits the extension,
\* returns False (which the callers ignore) when the file cannot be written
imwrite(F, path, img) ==
    LET F1 == [F EXCEPT !.calls = Append(@, "imwrite"), !.target = path]
    IN  IF ~HasWriter(path)
        THEN [F1 EXCEPT !.alive = FALSE]
        ELSE IF ~Writable(path)
        THEN F1
        ELSE [F1 EXCEPT !.disk[path] = img]

\* CVTeachingApp.save_as_image, path the file the dialog returned ("" when cancelled)
save_as_image(F, path) ==
    IF current_output = None
    THEN F
    ELSE IF path = ""
    THEN F
    ELSE LET F1 == imwrite(F, path, current_output)
         IN  IF F1.alive THEN [F1 EXCEPT !.current_output_path = path] ELSE F1

\* a Save that always asks for a path
save_imageMut(F, path) == save_as_image(F, path)

\* CVTeachingApp.save_image, path the answer of the dialog if it comes to ask
save_image(F, path) ==
    IF current_output = None
    THEN F
    ELSE IF F.current_output_path # ""
    THEN imwrite(F, F.current_output_path, current_output)
    ELSE save_as_image(F, path)

\* a save handler named op has run and left the files as F
FinishFile(F, op, path) ==
    /\ disk' = F.disk
    /\ current_output_path' = F.current_output_path
    /\ alive' = F.alive
    /\ act' = [op |-> op, pid |-> 0, calls |-> F.calls, stale |-> FALSE,
                path |-> path, target |-> F.target]
    /\ UNCHANGED << image, current_output, previous_output, camera_running,
                    parameter_windows, displayed, panels, now, hist,
                    current_camera, camera_timer, leaked, shown >>

\* File > Save
SaveImage(path) ==
    /\ alive
    /\ used < MaxEvents
    /\ FinishFile(save_image(FileWorld, path), "Save", path)
    /\ used' = used + 1

\* File > Save As
SaveAsImage(path) ==
    /\ alive
    /\ used < MaxEvents
    /\ FinishFile(save_as_image(FileWorld, path), "SaveAs", path)
    /\ used' = used + 1

NextFile ==
    \/ \E path \in Paths \cup {""} : OpenImage(path)
    \/ \E k \in Kinds : ShowParameterWindow(k)
    \/ \E p \in PanelIds : OkClicked(p)
    \/ \E path \in SavePaths : SaveImage(path)
    \/ \E path \in SavePaths \cup {""} : SaveAsImage(path)

SpecFile == Init /\ [][NextFile]_vars

----------------------------------------------------------------------------
(* Camera > Select Camera *)

\* StandardCameraWidget, OakDLiteCameraWidget, StereoCameraWidget
CamKinds == {"Standard", "OakD", "Stereo"}

\* what the hardware does when a source is started: the device opens and streams,
\* the device cannot be opened, or the device opens and its output queue cannot be had
StartOutcomes(k) ==
    IF k = "Standard" THEN {"ok", "no_device"} ELSE {"ok", "no_device", "queue_fail"}

\* a camera widget after __init__: handle is the open device (cv2.VideoCapture or
\* dai.Device), camera_running and timer are the widget's, running the wrapped
\* OakDLiteCamera / DepthAIStereoDepth object's
NewCamera(k) ==
    [kind |-> k, handle |-> FALSE, camera_running |-> FALSE, timer |-> FALSE,
     running |-> FALSE]

\* <CameraWidget>.start_stream: the widget it leaves, the value it returns, and
\* whether it waited for frames or a key press before it returned.  No start_stream
\* looks at camera_running; an object that self.capture or self.device referred to
\* before loses its last reference when the attribute is assigned, and is closed then
start_stream(cam, o) ==
    CASE cam.kind = "Standard" ->
            IF o = "ok"
            THEN [cam |-> [cam EXCEPT !.handle = TRUE, !.timer = TRUE,
                                      !.camera_running = TRUE],
                  result |-> TRUE, waited |-> FALSE]
            ELSE \* self.capture is the VideoCapture that did not open
                 [cam |-> [cam EXCEPT !.handle = FALSE],
                  result |-> FALSE, waited |-> FALSE]
      [] cam.kind = "OakD" ->
            \* OakDLiteCamera.start_stream catches every exception and returns None;
            \* when dai.Device raises, self.device is what it was
            [cam |-> [cam EXCEPT !.handle = IF o = "no_device" THEN @ ELSE TRUE,
                                 !.running = (o = "ok"),
                                 !.timer = TRUE, !.camera_running = TRUE],
             result |-> TRUE, waited |-> FALSE]
      [] cam.kind = "Stereo" ->
            \* DepthAIStereoDepth.start runs its display loop until q is pressed or
            \* a frame cannot be had, and ends in stop()
            [cam |-> [cam EXCEPT !.handle = FALSE, !.running = FALSE,
                                 !.timer = TRUE, !.camera_running = TRUE],
             result |-> TRUE, waited |-> (o = "ok")]

\* whether stop_stream finds an open device to release
Releases(cam) == cam.handle

\* a stop_stream that stops the timer and keeps the device
stop_streamMut(cam) == [cam EXCEPT !.timer = FALSE, !.camera_running = FALSE]

\* <CameraWidget>.stop_stream
stop_stream(cam) ==
    [cam EXCEPT !.handle = FALSE, !.running = FALSE, !.timer = FALSE,
                !.camera_running = FALSE]

\* StandardCameraWidget.toggle_stream, the slot of the widget's Start/Stop button
toggle_stream(cam, o) ==
    IF cam.camera_running
    THEN [cam |-> stop_stream(cam), result |-> FALSE, waited |-> FALSE]
    ELSE start_stream(cam, o)

\* the part of the state the camera handlers work on
CameraWorld ==
    [current_camera |-> current_camera, camera_timer |-> camera_timer,
     leaked |-> leaked, shown |-> shown, calls |-> << >>, started |-> FALSE,
     waited |-> FALSE]

\* self.current_camera = cam: the object referred to before is dropped as it is
SetCurrentCamera(C, cam) ==
    [C EXCEPT !.current_camera = cam,
              !.leaked = IF C.current_camera # None /\ C.current_camera.handle
                         THEN @ + 1 ELSE @]

\* a stop_camera_stream that stops nothing
stop_camera_streamMut(C) == C

\* CVTeachingApp.stop_camera_stream (the second definition, which replaces the first)
stop_camera_stream(C) ==
    IF C.current_camera # None
    THEN LET C1 == [C EXCEPT !.current_camera = stop_stream(@),
                             !.calls = Append(@, "stop_stream")]
         IN  [SetCurrentCamera(C1, None) EXCEPT !.camera_timer = FALSE,
                                                !.shown.camera_container = FALSE]
    ELSE C

\* CVTeachingApp.show_camera_window, o what the hardware does at the start
show_camera_window(C, k, o) ==
    LET C1 == IF C.current_camera # None THEN stop_camera_stream(C) ELSE C
        st == start_stream(NewCamera(k), o)
        C2 == [SetCurrentCamera(C1, st.cam)
                  EXCEPT !.calls = Append(@, "start_stream"), !.started = st.result,
                         !.waited = st.waited]
    IN  IF ~st.result
        THEN [C2 EXCEPT !.calls = Append(@, "warning")]
        ELSE [C2 EXCEPT !.shown = [image_label |-> FALSE, camera_container |-> TRUE],
                        !.camera_timer = TRUE]

\* an entry of the Select Camera menu
ShowCameraWindow(k, o) ==
    /\ alive
    /\ used < MaxEvents
    /\ LET C == show_camera_window(CameraWorld, k, o)
       IN  /\ current_camera' = C.current_camera
           /\ camera_timer' = C.camera_timer
           /\ leaked' = C.leaked
           /\ shown' = C.shown
           /\ act' = [op |-> "ShowCamera", pid |-> 0, calls |-> C.calls,
                       stale |-> FALSE, kind |-> k, outcome |-> o,
                       started |-> C.started, waited |-> C.waited]
    /\ used' = used + 1
    /\ UNCHANGED << image, current_output, previous_output, current_output_path,
                    camera_running, parameter_windows, displayed, panels, now,
                    alive, hist, disk >>

\* the user closes the main window: CVTeachingApp defines no closeEvent, the window
\* closes, app.exec_() returns and main() leaves through sys.exit
CloseMainWindow ==
    /\ alive
    /\ alive' = FALSE
    /\ act' = [op |-> "CloseMainWindow", pid |-> 0, calls |-> << >>, stale |-> FALSE]
    /\ UNCHANGED << image, current_output, previous_output, current_output_path,
                    camera_running, parameter_windows, displayed, panels, now,
                    hist, used, disk, current_camera, camera_timer, leaked, shown >>

NextCam ==
    \/ \E k \in CamKinds : \E o \in StartOutcomes(k) : ShowCameraWindow(k, o)
    \/ \E path \in Paths \cup {""} : OpenImage(path)
    \/ \E k \in Kinds : ShowParameterWindow(k)
    \/ CloseMainWindow

SpecCam == Init /\ [][NextCam]_vars

----------------------------------------------------------------------------
(* One Frame Source, driven through start_stream and stop_stream *)

\* a camera widget has been constructed and is held in current_camera
InitSource ==
    \E k \in CamKinds :
        /\ image = None
        /\ current_output = None
        /\ previous_output = None
        /\ current_output_path = ""
        /\ camera_running = FALSE
        /\ parameter_windows = << >>
        /\ displayed = None
        /\ panels = [p \in PanelIds |-> NoPanel]
        /\ now = T0
        /\ alive = TRUE
        /\ act = [op |-> "NewSource", pid |-> 0, calls |-> << >>, stale |-> FALSE]
        /\ hist = [p \in PanelIds |-> NoHist]
        /\ used = 0
        /\ disk = InitialDisk
        /\ current_camera = NewCamera(k)
        /\ camera_timer = FALSE
        /\ leaked = 0
        /\ shown = InitialShown

\* start_stream is called on the source, o what the hardware does
SourceStart(o) ==
    /\ alive
    /\ used < MaxEvents
    /\ o \in StartOutcomes(current_camera.kind)
    /\ LET st == start_stream(current_camera, o)
       IN  /\ current_camera' = st.cam
           /\ act' = [op |-> "Start", pid |-> 0, calls |-> << "start_stream" >>,
                       stale |-> FALSE, outcome |-> o, started |-> st.result,
                       waited |-> st.waited]
    /\ used' = used + 1
    /\ UNCHANGED << image, current_output, previous_output, current_output_path,
                    camera_running, parameter_windows, displayed, panels, now,
                    alive, hist, disk, camera_timer, leaked, shown >>

\* stop_stream is called on the source
SourceStop ==
    /\ alive
    /\ used < MaxEvents
    /\ current_camera' = stop_stream(current_camera)
    /\ act' = [op |-> "Stop", pid |-> 0, calls |-> << "stop_stream" >>,
                stale |-> FALSE, released |-> Releases(current_camera)]
    /\ used' = used + 1
    /\ UNCHANGED << image, current_output, previous_output, current_output_path,
                    camera_running, parameter_windows, displayed, panels, now,
                    alive, hist, disk, camera_timer, leaked, shown >>

\* the Start/Stop button of a StandardCameraWidget is clicked
ToggleStream(o) ==
    /\ alive
    /\ used < MaxEvents
    /\ current_camera.kind = "Standard"
    /\ o \in StartOutcomes(current_camera.kind)
    /\ LET st == toggle_stream(current_camera, o)
       IN  /\ current_camera' = st.cam
           /\ act' = [op |-> "Toggle", pid |-> 0,
                       calls |-> IF current_camera.camera_running
                                 THEN << "stop_stream" >> ELSE << "start_stream" >>,
                       stale |-> FALSE, outcome |-> o, started |-> st.result,
                       waited |-> st.waited]
    /\ used' = used + 1
    /\ UNCHANGED << image, current_output, previous_output, current_output_path,
                    camera_running, parameter_windows, displayed, panels, now,
                    alive, hist, disk, camera_timer, leaked, shown >>

NextSource ==
    \/ \E o \in {"ok", "no_device", "queue_fail"} : SourceStart(o)
    \/ SourceStop
    \/ \E o \in {"ok", "no_device"} : ToggleStream(o)
    \/ \E d \in TickSteps : Tick(d)

SpecSource == InitSource /\ [][NextSource]_vars

----------------------------------------------------------------------------
(* The odd-only sliders, over their whole range *)

\* the range create_slider gives a slider
SliderRange(k, c) ==
    CASE k = "Threshold" /\ c = "block_size" -> 3..51
      [] k = "GaussianBlur" /\ c = "kernel_size" -> 1..31
      [] k = "Laplacian" /\ c = "scale" -> 1..10
      [] k = "UnsharpMask" /\ c = "radius" -> 1..50
      [] OTHER -> {}

\* the window size DenoiseParameterWindow.apply_changes uses for a raw slider value
DenoiseOdd(v) == IF v % 2 = 0 THEN v + 1 ELSE v

\* the ranges of the Template Window and Search Window sliders
DenoiseRange == (3..11) \cup (3..21)

\* an image is loaded and one window with an odd-only slider has been opened,
\* its Live Preview box left checked or unchecked by the user
InitOdd ==
    \E k \in {"Threshold", "GaussianBlur"} : \E live \in BOOLEAN :
        LET img == InitialDisk["a.png"]
        IN  /\ image = img
            /\ current_output = img
            /\ previous_output = img
            /\ current_output_path = "a.png"
            /\ camera_running = FALSE
            /\ parameter_windows = [t \in {WindowTitle(k)} |-> 1]
            /\ displayed = img
            /\ panels = [p \in PanelIds |->
                            IF p = 1
                            THEN [NewPanel([current_output |-> img], k)
                                      EXCEPT !.live_preview = live]
                            ELSE NoPanel]
            /\ now = T0
            /\ alive = TRUE
            /\ act = [op |-> IF live THEN "ShowParameterWindow" ELSE "TogglePreview",
                      pid |-> 1, calls |-> << >>, stale |-> FALSE]
            /\ hist = [p \in PanelIds |-> NoHist]
            /\ used = IF live THEN 2 ELSE 3
            /\ disk = InitialDisk
            /\ current_camera = None
            /\ camera_timer = FALSE
            /\ leaked = 0
            /\ shown = InitialShown

\* the user drags an odd-only slider to the raw value v
SetOddControl(p, c, v) ==
    /\ alive
    /\ Open(p)
    /\ v \in SliderRange(panels[p].kind, c)
    /\ panels[p].ctl[c] # v
    /\ LET W == setValue(World, p, c, v)
       IN  /\ Outcome(W)
           /\ act' = [op |-> "SetOddControl", pid |-> p, calls |-> W.calls,
                       stale |-> hist[p].pending, control |-> c, raw |-> v]
    /\ UNCHANGED << current_output_path, used >>

NextOdd ==
    \/ \E p \in PanelIds : \E c \in {"block_size", "kernel_size"} :
           \E v \in 1..51 : SetOddControl(p, c, v)
    \/ \E d \in TickSteps : Tick(d)

SpecOdd == InitOdd /\ [][NextOdd]_vars

----------------------------------------------------------------------------
(* The Thresholding window with its Otsu and Triangle boxes *)

\* a.png is loaded and the Thresholding window has been opened
InitFlags ==
    LET img == InitialDisk["a.png"]
    IN  /\ image = img
        /\ current_output = img
        /\ previous_output = img
        /\ current_output_path = "a.png"
        /\ camera_running = FALSE
        /\ parameter_windows = [t \in {WindowTitle("Threshold")} |-> 1]
        /\ displayed = img
        /\ panels = [p \in PanelIds |->
                        IF p = 1
                        THEN NewPanel([current_output |-> img], "Threshold")
                        ELSE NoPanel]
        /\ now = T0
        /\ alive = TRUE
        /\ act = [op |-> "ShowParameterWindow", pid |-> 1, calls |-> << >>,
                  stale |-> FALSE]
        /\ hist = [p \in PanelIds |-> NoHist]
        /\ used = 2
        /\ disk = InitialDisk
        /\ current_camera = None
        /\ camera_timer = FALSE
        /\ leaked = 0
        /\ shown = InitialShown

\* the user ticks or clears the "Use Otsu's Method" or the "Use Triangle Method" box
SetCheckBox(p, c, b) ==
    /\ alive
    /\ Open(p)
    /\ panels[p].kind = "Threshold"
    /\ used < MaxEvents
    /\ panels[p].ctl[c] # b
    /\ Finish(setValue(World, p, c, b), "SetCheckBox", p)
    /\ used' = used + 1
    /\ UNCHANGED current_output_path

NextFlags ==
    \/ \E p \in PanelIds : \E c \in {"otsu", "triangle"} : \E b \in BOOLEAN :
           SetCheckBox(p, c, b)
    \/ \E p \in PanelIds : \E in \in UserInputs("Threshold") :
           ChangeControl(p, in[1], in[2])
    \/ \E p \in PanelIds : TogglePreview(p)
    \/ \E p \in PanelIds : OkClicked(p)
    \/ \E d \in TickSteps : Tick(d)

SpecFlags == InitFlags /\ [][NextFlags]_vars

----------------------------------------------------------------------------
(* The Laplacian and Unsharp Mask windows, over a whole slider range *)

\* the slider of each window whose position the behaviour starts from
StartSlider(k) == IF k = "Laplacian" THEN "scale" ELSE "radius"

\* a.png is loaded and one of the two windows has been opened; either nothing in it
\* has been touched, or the user has dragged one slider, which was previewed
InitSharp ==
    \E k \in SharpKinds : \E v \in SliderRange(k, StartSlider(k)) :
        LET img == InitialDisk["a.png"]
            c == StartSlider(k)
            touched == v # InitialControls(k)[c]
            fresh == NewPanel([current_output |-> img], k)
            ctl == [fresh.ctl EXCEPT ![c] = v]
        IN  /\ image = img
            /\ current_output = img
            /\ previous_output = img
            /\ current_output_path = "a.png"
            /\ camera_running = FALSE
            /\ parameter_windows = [t \in {WindowTitle(k)} |-> 1]
            /\ displayed = IF touched THEN Operator(k, ReadParams(k, ctl), img) ELSE img
            /\ panels = [p \in PanelIds |->
                            IF p # 1
                            THEN NoPanel
                            ELSE IF ~touched
                            THEN fresh
                            ELSE [fresh EXCEPT !.ctl = ctl,
                                               !.label[c] = LabelText(k, c, v),
                                               !.current_params = ReadParams(k, ctl),
                                               !.last_update_time = T0]]
            /\ now = T0
            /\ alive = TRUE
            /\ act = IF touched
                     THEN [op |-> "ChangeControl", pid |-> 1, calls |-> << "temp" >>,
                           stale |-> FALSE]
                     ELSE [op |-> "ShowParameterWindow", pid |-> 1, calls |-> << >>,
                           stale |-> FALSE]
            /\ hist = [p \in PanelIds |->
                          IF p = 1 /\ touched
                          THEN [lastRec |-> T0, prevRec |-> -1, lastCC |-> T0,
                                prevCC |-> -1, lastInput |-> img, pending |-> FALSE]
                          ELSE NoHist]
            /\ used = IF touched THEN 3 ELSE 2
            /\ disk = InitialDisk
            /\ current_camera = None
            /\ camera_timer = FALSE
            /\ leaked = 0
            /\ shown = InitialShown

NextSharp ==
    \/ \E p \in PanelIds : \E k \in SharpKinds : \E in \in UserInputs(k) :
           ChangeControl(p, in[1], in[2])
    \/ \E p \in PanelIds : TogglePreview(p)
    \/ \E p \in PanelIds : OkClicked(p)
    \/ \E p \in PanelIds : RevertClicked(p)
    \/ \E d \in TickSteps : Tick(d)

SpecSharp == InitSharp /\ [][NextSharp]_vars

----------------------------------------------------------------------------
(* Properties *)

Registered(p) == \E t \in DOMAIN parameter_windows : parameter_windows[t] = p

OnlyPreviewCalls(calls) ==
    calls # << >> /\ \A i \in DOMAIN calls : calls[i] = "temp"

\* C1: a handler that only previews (every call it makes to the shell is
\* temp_display_image) leaves current_output and current_output_path as they were,
\* so after any number of previews the output is the one from before the panel opened.
C1_PreviewKeepsOutput ==
    [][ OnlyPreviewCalls(act'.calls)
            => /\ current_output' = current_output
               /\ current_output_path' = current_output_path ]_vars

\* a control change has just been previewed: the display differs from the output
C1_Witness ==
    /\ act.op = "ChangeControl"
    /\ act.calls = << "temp" >>
    /\ displayed # current_output

\* C2 (as claimed): once Revert has run, the image on display is the panel's
\* revert-target snapshot.
C2_RevertRestoresDisplay ==
    (act.op = "Revert" /\ Open(act.pid))
        => displayed = panels[act.pid].original_image

\* C3: OK commits the operator's result for the values the controls hold when OK is
\* pressed, also when the last control change was dropped by the throttle.
C3_OkCommitsFinalValues ==
    [][ act'.op = "Ok"
            => current_output' =
                   Operator(panels[act'.pid].kind,
                            ReadParams(panels[act'.pid].kind, panels[act'.pid].ctl),
                            image) ]_vars

\* OK was pressed while a dropped control change was pending, and has committed
C3_Witness ==
    /\ act.op = "Ok"
    /\ act.stale
    /\ act.calls = << "display" >>
    /\ current_output = displayed

\* C4 (as claimed): the image every recompute of a panel hands to the operator is
\* the panel's revert target.
C4_RecomputeOnRevertTarget ==
    \A p \in PanelIds :
        (Open(p) /\ hist[p].lastInput # None)
            => hist[p].lastInput = panels[p].original_image

\* C5 (as claimed): Revert, Cancel, a control change and the preview toggle never
\* change current_output.
C5_OutputChangesOnlyOnCommit ==
    [][ act'.op \in {"Revert", "Cancel", "ChangeControl", "TogglePreview"}
            => current_output' = current_output ]_vars

\* C6 (as claimed): within one panel no two recomputes start less than 66 ms apart.
C6_AllRecomputesSpaced ==
    \A p \in PanelIds :
        (Open(p) /\ hist[p].prevRec # -1)
            => hist[p].lastRec - hist[p].prevRec >= THROTTLE_MS

\* C6 (amended): within one panel two recomputes started by control-change events
\* are more than 66 ms apart, and a control change that arrives 66 ms or less after
\* such a recompute starts no recompute and leaves the image on display and the
\* output as they were.
C6_ChangeRecomputesSpaced ==
    /\ [](\A p \in PanelIds :
            (Open(p) /\ hist[p].prevCC # -1)
                => hist[p].lastCC - hist[p].prevCC > THROTTLE_MS)
    /\ [][ ( /\ act'.op = "ChangeControl"
             /\ hist[act'.pid].lastCC # -1
             /\ now - hist[act'.pid].lastCC <= THROTTLE_MS )
               => /\ displayed' = displayed
                  /\ current_output' = current_output
                  /\ hist'[act'.pid].lastRec = hist[act'.pid].lastRec ]_vars

\* a panel has started two recomputes from control changes
C6_Witness ==
    \E p \in PanelIds :
        /\ Open(p)
        /\ hist[p].prevCC # -1
        /\ act.op = "ChangeControl"

\* C7 (as claimed): at most one panel of each kind is open.
C7_OnePanelPerKind ==
    \A k \in Kinds : Cardinality({p \in PanelIds : Open(p) /\ panels[p].kind = k}) <= 1

\* C8 (as claimed): a panel is in parameter_windows if and only if it is open.
C8_RegistryIsOpenPanels ==
    \A p \in PanelIds : Open(p) <=> Registered(p)

\* C9: a Tools entry chosen with no image loaded and no camera running shows the
\* warning and changes nothing else.
C9_NoImageWarns ==
    [][ (act'.op = "ShowParameterWindow" /\ image = None /\ ~camera_running)
            => /\ act'.calls = << "warning" >>
               /\ UNCHANGED << image, current_output, previous_output,
                               current_output_path, parameter_windows, displayed,
                               panels, alive >> ]_vars

\* the warning has been shown and there is still no image and no panel
C9_Witness ==
    /\ act.op = "ShowParameterWindow"
    /\ act.calls = << "warning" >>
    /\ image = None
    /\ alive

\* C11: an odd-only slider dragged to an even raw value ends on an odd value one
\* away from it and not below the operator's minimum (3 for the threshold block size,
\* 1 for the blur kernel), with its label showing that value; an odd raw value is
\* kept.  The denoise window sizes are odd, one away from an even raw value and at
\* least 3.
C11_OddOnlyNormalised ==
    /\ [][ act'.op = "SetOddControl"
              => LET v == act'.raw
                     k == panels[act'.pid].kind
                     r == panels'[act'.pid].ctl[act'.control]
                 IN  /\ r % 2 = 1
                     /\ r >= OddMin(k)
                     /\ v % 2 = 1 => r = v
                     /\ v % 2 = 0 => (r = v - 1 \/ r = v + 1)
                     /\ panels'[act'.pid].label[act'.control] = FromInt(r) ]_vars
    /\ [](\A v \in DenoiseRange :
             LET r == DenoiseOdd(v)
             IN  /\ r % 2 = 1
                 /\ r >= 3
                 /\ v % 2 = 1 => r = v
                 /\ v % 2 = 0 => (r = v - 1 \/ r = v + 1))

\* the block-size slider was dragged to an even value and stands on the odd one below
C11_Witness ==
    /\ act.op = "SetOddControl"
    /\ act.raw % 2 = 0
    /\ act.control = "block_size"
    /\ panels[act.pid].ctl.block_size = act.raw - 1

\* C12: while the Live Preview box is unchecked, a control change starts no recompute,
\* makes no call into the shell and leaves the image on display as it was.
C12_NoPreviewWhenUnchecked ==
    [][ (act'.op = "ChangeControl" /\ ~panels[act'.pid].live_preview)
            => /\ act'.calls = << >>
               /\ displayed' = displayed
               /\ current_output' = current_output
               /\ hist'[act'.pid].lastRec = hist[act'.pid].lastRec ]_vars

\* a control was changed with the Live Preview box unchecked
C12_Witness ==
    /\ act.op = "ChangeControl"
    /\ Open(act.pid)
    /\ ~panels[act.pid].live_preview
    /\ panels[act.pid].ctl # InitialControls(panels[act.pid].kind)

\* C13: a load that decodes its file makes the decoded image the base image, the
\* current output and the image on display and makes the file's path the output path;
\* a Save that follows it writes the current output to that file.
C13_LoadReplacesImageAndPath ==
    /\ [][ \A path \in Paths :
              (OpenImage(path) /\ imread(path) # None)
                  => /\ image' = imread(path)
                     /\ current_output' = imread(path)
                     /\ displayed' = imread(path)
                     /\ current_output_path' = path ]_vars
    /\ [][ (act.op = "OpenImage" /\ act.calls = << "display" >> /\ act'.op = "Save")
              => /\ act'.target = current_output_path
                 /\ disk'[current_output_path] = current_output ]_vars

\* b.png was loaded and the Save that followed has written it back to b.png
C13_Witness ==
    /\ act.op = "Save"
    /\ act.target = "b.png"
    /\ current_output_path = "b.png"
    /\ image = InitialDisk["b.png"]
    /\ current_output = image
    /\ disk["b.png"] = current_output

\* C14 (as claimed): a load of a file that cannot be decoded leaves the base image,
\* the current output and the output path as they were, and the application running.
C14_FailedLoadKeepsState ==
    [][ \A path \in Paths :
          (OpenImage(path) /\ imread(path) = None)
              => /\ image' = image
                 /\ current_output' = current_output
                 /\ current_output_path' = current_output_path
                 /\ alive' ]_vars

\* C15: a save changes neither the base image nor the current output; Save As with a
\* writable path writes the current output there and makes it the output path; Save
\* writes the current output to the output path, when that path is writable; and the
\* output path changes only in a load or a Save As.
C15_SaveWritesCurrentOutput ==
    /\ [][ act'.op \in {"Save", "SaveAs"}
              => image' = image /\ current_output' = current_output ]_vars
    /\ [][ ( /\ act'.op = "SaveAs"
             /\ current_output # None
             /\ act'.path # "" /\ HasWriter(act'.path) /\ Writable(act'.path) )
              => /\ disk' = [disk EXCEPT ![act'.path] = current_output]
                 /\ current_output_path' = act'.path ]_vars
    /\ [][ ( /\ act'.op = "Save"
             /\ current_output # None
             /\ current_output_path # ""
             /\ HasWriter(current_output_path) /\ Writable(current_output_path) )
              => /\ disk' = [disk EXCEPT ![current_output_path] = current_output]
                 /\ current_output_path' = current_output_path ]_vars
    /\ [][ current_output_path' # current_output_path
              => act'.op \in {"OpenImage", "SaveAs"} ]_vars

\* after a Save As to out.png and a commit, Save has written the committed output to
\* out.png
C15_Witness ==
    /\ act.op = "Save"
    /\ act.target = "out.png"
    /\ current_output_path = "out.png"
    /\ current_output # image
    /\ disk["out.png"] = current_output

\* C16 (as claimed): a save with no current output, or to a path that cannot be
\* written, shows an error, records no new output path and leaves the application
\* running.
C16_FailedSaveReported ==
    [][ ( /\ act'.op \in {"Save", "SaveAs"}
          /\ \/ current_output = None
             \/ act'.target # "" /\ ~(HasWriter(act'.target) /\ Writable(act'.target)) )
            => /\ \E i \in DOMAIN act'.calls : act'.calls[i] = "warning"
               /\ current_output_path' = current_output_path
               /\ alive' ]_vars

\* the device handles that are open, in the current camera or in a dropped one
OpenHandles ==
    leaked + (IF current_camera # None /\ current_camera.handle THEN 1 ELSE 0)

\* C17: at most one device handle is open, and a camera selection made while a
\* camera is current stops that camera before it starts the new one.
C17_OneOpenHandle ==
    /\ [](OpenHandles <= 1)
    /\ [][ (act'.op = "ShowCamera" /\ current_camera # None)
              => /\ Len(act'.calls) >= 2
                 /\ act'.calls[1] = "stop_stream"
                 /\ act'.calls[2] = "start_stream" ]_vars

\* a camera was selected while another held its device, and the new one holds its own
C17_Witness ==
    /\ act.op = "ShowCamera"
    /\ Len(act.calls) = 2
    /\ act.calls[1] = "stop_stream"
    /\ current_camera # None
    /\ current_camera.handle
    /\ OpenHandles = 1

\* C18 (as claimed): when the new source does not start, no camera is current, the
\* pull timer is not running and a warning is shown.
C18_FailedStartLeavesNoCamera ==
    [][ (act'.op = "ShowCamera" /\ act'.outcome # "ok")
            => /\ current_camera' = None
               /\ ~camera_timer'
               /\ \E i \in DOMAIN act'.calls : act'.calls[i] = "warning" ]_vars

\* C19 (as claimed): start_stream reports failure when the device cannot be opened,
\* and reports success only with the device open and the source running.
C19_StartReportsFailure ==
    [][ act'.op = "ShowCamera"
            => /\ act'.outcome = "no_device" => ~act'.started
               /\ act'.started => /\ current_camera'.handle
                                   /\ current_camera'.camera_running ]_vars

\* C20 (as claimed): after a start that failed no device handle is open.
C20_FailedStartReleasesDevice ==
    [][ (act'.op = "ShowCamera" /\ act'.outcome # "ok")
            => OpenHandles' = 0 ]_vars

\* C10 (as claimed): once Revert has run, the panel's current_params equal its
\* default_params and the panel is open and registered.
C10_RevertResetsParams ==
    act.op = "Revert"
        => /\ Open(act.pid)
           /\ panels[act.pid].current_params = panels[act.pid].default_params
           /\ Registered(act.pid)

\* the source holds no device, runs no timer and does not count itself running
Idle(cam) == ~cam.handle /\ ~cam.running /\ ~cam.timer /\ ~cam.camera_running

\* C21 (as claimed): after a start_stream that follows a start_stream which reported
\* success, with no stop_stream between them, exactly one device handle is open or
\* the second call has reported failure.
C21_SecondStartKeepsOneHandle ==
    [][ (act.op = "Start" /\ act.started /\ act'.op = "Start")
            => (OpenHandles' = 1 \/ ~act'.started) ]_vars

\* C22: stop_stream leaves the source idle and the application running and releases
\* a device only if one was open; called on a source that was never started, or a
\* second time in a row, it releases nothing and changes nothing.
C22_StopIdempotent ==
    /\ [][ act'.op = "Stop"
              => /\ alive'
                 /\ Idle(current_camera')
                 /\ OpenHandles' = 0
                 /\ act'.released => current_camera.handle ]_vars
    /\ [][ (act.op \in {"NewSource", "Stop"} /\ act'.op = "Stop")
              => /\ ~act'.released
                 /\ current_camera' = current_camera ]_vars

\* a running source was stopped, its device released, and then stopped again
C22_Witness ==
    /\ act.op = "Stop"
    /\ ~act.released
    /\ used >= 3
    /\ Idle(current_camera)

\* C23 (as claimed): when the main window has been closed, the current source is
\* stopped and no device handle is open.
C23_CloseReleasesCamera ==
    act.op = "CloseMainWindow"
        => /\ OpenHandles = 0
           /\ current_camera # None => Idle(current_camera)

\* C28 (as claimed): exactly one of the image label and the camera container is
\* visible, and it is the image label whenever no camera is current.
C28_OneSurfaceVisible ==
    /\ shown.image_label # shown.camera_container
    /\ current_camera = None => shown.image_label

\* get_frame can return frames: the device is open and the source counts itself running
Streaming(cam) ==
    /\ cam.handle
    /\ cam.camera_running
    /\ cam.kind # "Standard" => cam.running

\* C30 (as claimed): no start_stream waits for frames or for a key press before it
\* returns, and a start whose device opens and streams returns success with the
\* source running.
C30_StartReturns ==
    [][ act'.op = "ShowCamera"
            => /\ ~act'.waited
               /\ act'.outcome = "ok" => /\ act'.started
                                         /\ Streaming(current_camera') ]_vars

\* C24 (as claimed): when the operator raises during a recompute, the handler shows
\* a notice and the output, the image on display and the running application are as
\* they were, with the panel still open.
C24_OperatorErrorCaught ==
    [][ (\E i \in DOMAIN act'.calls : act'.calls[i] = "cv2.error")
            => /\ alive'
               /\ \E i \in DOMAIN act'.calls : act'.calls[i] = "warning"
               /\ current_output' = current_output
               /\ displayed' = displayed
               /\ panels'[act'.pid] # NoPanel ]_vars

\* C27 (as claimed): an OK pressed in a panel none of whose controls has been
\* touched since it opened recomputes with the values of default_params and commits
\* the operator's result for them.
C27_OpenUsesDefaults ==
    [][ ( /\ act'.op = "Ok"
          /\ panels[act'.pid].ctl = InitialControls(panels[act'.pid].kind) )
            => LET k == panels[act'.pid].kind
               IN  /\ ReadParams(k, panels[act'.pid].ctl) = default_params(k)
                   /\ current_output' = Operator(k, default_params(k), image) ]_vars

\* C29 (as claimed): when OK recomputes an Unsharp Mask panel whose blur type is
\* Median, the kernel size handed to the median blur is odd and at least 1, and the
\* recompute goes through.
C29_MedianKernelOdd ==
    [][ ( /\ act'.op = "Ok"
          /\ panels[act'.pid].kind = "UnsharpMask"
          /\ blur_type(panels[act'.pid].ctl.blur) = "median" )
            => LET ks == MedianKernel(Scaled(panels[act'.pid].ctl.radius, 10))
               IN  /\ ks % 2 = 1
                   /\ ks >= 1
                   /\ alive' ]_vars

\* C25: a control change that arrives with Live Preview on and 66 ms or less after
\* the panel's last preview updates the label of the control, makes no call into the
\* shell, starts no recompute and leaves the image on display and the output as they
\* were; and a panel's recompute only ever starts in a control change or a Revert of
\* that panel (or an OK or Cancel, which close it), never with the passing of time.
C25_DroppedChangeNotQueued ==
    /\ [][ ( /\ act'.op = "ChangeControl"
             /\ panels[act'.pid].live_preview
             /\ now - panels[act'.pid].last_update_time <= THROTTLE_MS )
              => LET p == act'.pid
                     k == panels[p].kind
                 IN  /\ act'.calls = << >>
                     /\ displayed' = displayed
                     /\ current_output' = current_output
                     /\ hist'[p].lastRec = hist[p].lastRec
                     /\ panels'[p].current_params = panels[p].current_params
                     /\ \A c \in Sliders(k) :
                            panels'[p].label[c] =
                                IF panels'[p].ctl[c] # panels[p].ctl[c]
                                THEN LabelText(k, c, panels'[p].ctl[c])
                                ELSE panels[p].label[c] ]_vars
    /\ [][ \A p \in PanelIds :
              hist'[p].lastRec \notin {hist[p].lastRec, -1}
                  => act'.op \in {"ChangeControl", "Revert"} /\ act'.pid = p ]_vars
    /\ [][ act'.op = "Tick"
              => UNCHANGED << displayed, current_output, panels, hist >> ]_vars

\* a control change was dropped, the throttle window has since passed, and the
\* display still shows the result of the earlier values
C25_Witness ==
    /\ act.op = "Tick"
    /\ \E p \in PanelIds :
           /\ Open(p)
           /\ hist[p].pending
           /\ now - panels[p].last_update_time > THROTTLE_MS
           /\ ReadParams(panels[p].kind, panels[p].ctl) # panels[p].current_params
           /\ displayed = Operator(panels[p].kind, panels[p].current_params, image)

\* C26: an odd-only slider and the value the last recompute used for it are odd in
\* every state, and a drag of such a slider that starts a recompute hands the
\* operator the very size the slider holds and its label shows.
C26_OddBeforeRecompute ==
    /\ [](\A p \in PanelIds : \A c \in {"kernel_size", "block_size"} :
             (Open(p) /\ c \in OddOnly(panels[p].kind))
                 => /\ panels[p].ctl[c] % 2 = 1
                    /\ (panels[p].current_params[c] \div FP) % 2 = 1)
    /\ [][ (act'.op = "SetOddControl" /\ act'.calls # << >>)
              => LET pn == panels'[act'.pid]
                     c == act'.control
                 IN  /\ pn.current_params[c] = FromInt(pn.ctl[c])
                     /\ pn.current_params[c] = pn.label[c]
                     /\ hist'[act'.pid].lastRec = now ]_vars

\* the blur kernel slider was dragged to 4: it stands on 3, shows 3, and the preview
\* was computed with 3
C26_Witness ==
    /\ act.op = "SetOddControl"
    /\ act.control = "kernel_size"
    /\ act.raw = 4
    /\ act.calls = << "temp" >>
    /\ panels[act.pid].ctl.kernel_size = 3
    /\ panels[act.pid].label.kernel_size = FromInt(3)
    /\ panels[act.pid].current_params.kernel_size = FromInt(3)

====
